---- MODULE Spec2Model ----
(***************************************************************************)
(* Model of src/core/library/uri_test.py: the HTTP load-test module.       *)
(* main() validates its parameters, creates a multiprocessing Pool, hands  *)
(* request_count run_test() calls to it, joins the pool, folds the results *)
(* and returns the report with exit_json().                                *)
(*                                                                         *)
(* Time: time.time() is modelled by a clock that never runs backwards; a   *)
(* reading returns any value from the last reading up to MaxTime.  The     *)
(* clock unit is a third of a millisecond, so that round(x, 3) is a real   *)
(* rounding (see Round3).                                                  *)
(*                                                                         *)
(* Pool: multiprocessing.Pool(processes=n) is modelled by its contract: n  *)
(* worker processes, each taking the oldest queued task and running it to  *)
(* its result or its exception, which the task's AsyncResult keeps.        *)
(* open_url either returns a response (any status of Statuses) or raises.  *)
(***************************************************************************)
EXTENDS Integers, Sequences, FiniteSets, TLC

\* ---------------------------------------------------------------- bounds
MaxRequests == 2
MaxWorkers == 2
MaxTime == 2

\* HTTP status codes a response may carry (both sides of 200 and of 400)
Statuses == {199, 200, 399, 400}
\* body lengths, in bytes, a response may carry
Lengths == {0, 100}

VARIABLES
    pc,                  \* position of main(): see the actions
    params,              \* module.params, the parsed arguments (lines 120-129)
    workers,             \* main's local `workers` (line 134, rewritten at 144)
    request_count,       \* main's local `request_count` (line 133)
    keepalive,           \* main's local `keepalive` (line 135)
    variable_length,     \* main's local `variable_length` (line 136)
    processes,           \* size of the Pool created at line 147; 0: no pool
    closed,              \* pool.close() was called (line 150)
    async_results,       \* the list built at line 149, one record per apply_async
    clock,               \* the last value time.time() returned, in any process
    start, end,          \* main's `start` (148) and `end` (152)
    total_time, total_bytes, total_content_bytes, total_errors,  \* lines 155-158
    idx,                 \* position of the loop of line 160 in async_results
    calls,               \* number of run_test invocations started so far
    outcome,             \* how main ended: "none", "report", "config_error", "exception"
    result               \* the dict handed to exit_json (line 178)

vars == <<pc, params, workers, request_count, keepalive, variable_length, processes,
          closed, async_results, clock, start, end, total_time, total_bytes,
          total_content_bytes, total_errors, idx, calls, outcome, result>>

cfgVars == <<params, request_count, keepalive, variable_length>>
poolVars == <<processes, closed, async_results, calls>>
sumVars == <<total_time, total_bytes, total_content_bytes, total_errors, idx>>

NoResult == [status |-> 0, time |-> 0, content_length |-> 0, total_length |-> 0]
NoReport == [total_time |-> 0, total_bytes_transferred |-> 0,
             total_content_bytes_transferred |-> 0, requests_per_second |-> 0,
             kbytes_per_second |-> 0, failed_requests |-> 0]
\* a task as apply_async queues it; the fields of a running task are the
\* locals of its run_test call
NoTask == [state |-> "queued", headers |-> {}, start |-> 0, elapsed |-> 0,
           code |-> 0, res |-> NoResult]

\* ------------------------------------------------------- pure functions

\* a URIResult whose total_length also counts the response's header bytes
URIResultWithHeaders(code, elapsed, nread) ==
    [status |-> code, time |-> elapsed, content_length |-> nread,
     total_length |-> nread + 17]

\* lines 116-117: the URIResult run_test returns for a response with status
\* `code` whose body has nread bytes, `elapsed` being end - start
URIResult(code, elapsed, nread) ==
    [status |-> code, time |-> elapsed, content_length |-> nread,
     total_length |-> nread]

\* the header attached whatever keepalive is
HeadersAlways(ka) == {<<"Connection", "keep-alive">>}

\* lines 108-110: the headers of the outgoing request
Headers(ka) == IF ka THEN {<<"Connection", "keep-alive">>} ELSE {}

\* no clamping: the configured value is used as it is
ClampWorkersNone(w, rc) == w

\* lines 143-144: if request_count < workers: workers = request_count
ClampWorkers(w, rc) == IF rc < w THEN rc ELSE w

\* the upper test written with > instead of >=
IsErrorAbove400(status) == status < 200 \/ status > 400

\* line 164: the test that counts a result as an error
IsError(status) == status < 200 \/ status >= 400

\* line 155: round(end - start, 3).  d is in clock units (thirds of a
\* millisecond); the value is in milliseconds, i.e. thousandths of a second.
Round3(d) == (d + 1) \div 3

\* round(num / den, 2) in hundredths, for num >= 0, den > 0 (lines 172-173)
Round2(num, den) == (2 * 100 * num + den) \div (2 * den)

\* line 172: round(request_count / total_time, 2), total_time in milliseconds
RequestsPerSecond(rc, tt) == Round2(rc * 1000, tt)

\* line 173: round((float(total_bytes) / total_time) / 2**10, 2)
KBytesPerSecond(tb, tt) == Round2(tb * 1000, tt * 1024)

\* a reading of time.time(): not before the last reading
Readings == clock..MaxTime

Finished(i) == async_results[i].state \in {"done", "raised"}
Running == {i \in 1..Len(async_results) : async_results[i].state \in {"request", "read"}}
Queued == {i \in 1..Len(async_results) : async_results[i].state = "queued"}
Min(S) == CHOOSE x \in S : \A y \in S : x <= y

\* ------------------------------------------------------------------ Init
\* The state after lines 120-136: the parameters are parsed, nothing has run.
\* keepalive and variable_length have their defaults (lines 125-126).
Init ==
    /\ pc = "validate"
    /\ params \in [workers : 0..MaxWorkers, request_count : 0..MaxRequests,
                    keepalive : {FALSE}, variable_length : {FALSE}]
    /\ workers = params.workers
    /\ request_count = params.request_count
    /\ keepalive = params.keepalive
    /\ variable_length = params.variable_length
    /\ processes = 0
    /\ closed = FALSE
    /\ async_results = <<>>
    /\ clock = 0
    /\ start = 0
    /\ end = 0
    /\ total_time = 0
    /\ total_bytes = 0
    /\ total_content_bytes = 0
    /\ total_errors = 0
    /\ idx = 0
    /\ calls = 0
    /\ outcome = "none"
    /\ result = NoReport

\* ------------------------------------------------------------ validation

\* lines 139-140: workers < 1: module.fail_json(...) ends the process with
\* the failure.  (fail_json is AnsibleModule's; it is given the message as a
\* positional dict, and is modelled by its contract: report and exit.)
FailWorkers ==
    /\ pc = "validate"
    /\ workers < 1
    /\ pc' = "done"
    /\ outcome' = "config_error"
    /\ UNCHANGED <<workers, cfgVars, poolVars, clock, start, end, sumVars, result>>

\* lines 141-142: request_count < 1: the statement is `module.fail-json(...)`,
\* the subtraction module.fail - json(...); evaluating module.fail raises
\* AttributeError (and `json` is not a name of the module), so main ends with
\* an unhandled exception instead of calling fail_json.
FailRequestCount ==
    /\ pc = "validate"
    /\ ~(workers < 1)
    /\ request_count < 1
    /\ pc' = "done"
    /\ outcome' = "exception"
    /\ UNCHANGED <<workers, cfgVars, poolVars, clock, start, end, sumVars, result>>

\* lines 139-144 with both tests false: clamp workers to request_count
Validated ==
    /\ pc = "validate"
    /\ ~(workers < 1)
    /\ ~(request_count < 1)
    /\ workers' = ClampWorkers(workers, request_count)
    /\ pc' = "pool"
    /\ UNCHANGED <<cfgVars, poolVars, clock, start, end, sumVars, outcome, result>>

\* ------------------------------------------------------------------ pool

\* lines 147-148: pool = Pool(processes=workers); start = time.time()
CreatePool ==
    /\ pc = "pool"
    /\ processes' = workers
    /\ \E t \in Readings : clock' = t /\ start' = t
    /\ pc' = "submit"
    /\ UNCHANGED <<workers, cfgVars, closed, async_results, calls, end, sumVars,
                   outcome, result>>

\* a comprehension over range(0, request_count + 1)
SubmitOneMore ==
    /\ pc = "submit"
    /\ Len(async_results) < request_count + 1
    /\ async_results' = Append(async_results, NoTask)
    /\ UNCHANGED <<pc, workers, cfgVars, processes, closed, calls, clock, start,
                   end, sumVars, outcome, result>>

\* line 149: one pool.apply_async(run_test, ...) of the list comprehension
Submit ==
    /\ pc = "submit"
    /\ Len(async_results) < request_count
    /\ async_results' = Append(async_results, NoTask)
    /\ UNCHANGED <<pc, workers, cfgVars, processes, closed, calls, clock, start,
                   end, sumVars, outcome, result>>

\* start = time.time() written after the comprehension instead of before it
ClosePoolStampsStart ==
    /\ pc = "submit"
    /\ Len(async_results) = request_count
    /\ closed' = TRUE
    /\ \E t \in Readings : clock' = t /\ start' = t
    /\ pc' = "join"
    /\ UNCHANGED <<workers, cfgVars, processes, async_results, calls, end,
                   sumVars, outcome, result>>

\* line 150: the comprehension is over; pool.close()
ClosePool ==
    /\ pc = "submit"
    /\ Len(async_results) = request_count
    /\ closed' = TRUE
    /\ pc' = "join"
    /\ UNCHANGED <<workers, cfgVars, processes, async_results, calls, clock,
                   start, end, sumVars, outcome, result>>

\* a pool that starts a process per task, whatever its size
WorkerStartUnbounded ==
    /\ Queued # {}
    /\ processes > 0
    /\ LET i == Min(Queued) IN
       \E t \in Readings :
          /\ clock' = t
          /\ async_results' = [async_results EXCEPT ![i] =
                [NoTask EXCEPT !.state = "request",
                               !.headers = Headers(keepalive), !.start = t]]
    /\ calls' = calls + 1
    /\ UNCHANGED <<pc, workers, cfgVars, processes, closed, start, end, sumVars,
                   outcome, result>>

\* A worker process of the pool takes the oldest queued task and enters
\* run_test: lines 108-111 (headers, start = time.time()), then open_url is
\* called and the request is on the wire.  The pool has `processes` worker
\* processes, each running one task at a time: a task is taken only while
\* one of them is free.
WorkerStart ==
    /\ Queued # {}
    /\ Cardinality(Running) < processes
    /\ LET i == Min(Queued) IN
       \E t \in Readings :
          /\ clock' = t
          /\ async_results' = [async_results EXCEPT ![i] =
                [NoTask EXCEPT !.state = "request",
                               !.headers = Headers(keepalive), !.start = t]]
    /\ calls' = calls + 1
    /\ UNCHANGED <<pc, workers, cfgVars, processes, closed, start, end, sumVars,
                   outcome, result>>

\* lines 112-113: open_url returns a response carrying some status code, and
\* end = time.time() is taken.  The body has not been read yet.  end - start
\* is fixed from here on: the model keeps the difference, not the two
\* readings.
WorkerResponse(i) ==
    /\ i \in 1..Len(async_results)
    /\ async_results[i].state = "request"
    /\ \E code \in Statuses, t \in Readings :
          /\ clock' = t
          /\ async_results' = [async_results EXCEPT
                ![i].state = "read", ![i].code = code, ![i].start = 0,
                ![i].elapsed = t - async_results[i].start]
    /\ UNCHANGED <<pc, workers, cfgVars, processes, closed, calls, start, end,
                   sumVars, outcome, result>>

\* a run_test that is queued again when open_url raises
WorkerRaiseRetry(i) ==
    /\ i \in 1..Len(async_results)
    /\ async_results[i].state = "request"
    /\ async_results' = [async_results EXCEPT ![i] = NoTask]
    /\ UNCHANGED <<pc, workers, cfgVars, processes, closed, calls, clock, start,
                   end, sumVars, outcome, result>>

\* line 112: open_url raises (connection refused, timeout, DNS failure, ...).
\* run_test has no handler: the pool's worker stores the exception in the
\* task's AsyncResult and goes on to the next task.
WorkerRaise(i) ==
    /\ i \in 1..Len(async_results)
    /\ async_results[i].state = "request"
    /\ async_results' = [async_results EXCEPT ![i] =
          [NoTask EXCEPT !.state = "raised", !.headers = async_results[i].headers]]
    /\ UNCHANGED <<pc, workers, cfgVars, processes, closed, calls, clock, start,
                   end, sumVars, outcome, result>>

\* a run_test that adds its bytes to the total itself
WorkerReturnAccumulates(i) ==
    /\ i \in 1..Len(async_results)
    /\ async_results[i].state = "read"
    /\ \E nread \in Lengths :
          /\ async_results' = [async_results EXCEPT ![i] =
               [NoTask EXCEPT !.state = "done", !.headers = async_results[i].headers,
                              !.res = URIResult(async_results[i].code,
                                                async_results[i].elapsed, nread)]]
          /\ total_bytes' = total_bytes + nread
    /\ UNCHANGED <<pc, workers, cfgVars, processes, closed, calls, clock, start,
                   end, total_time, total_content_bytes, total_errors, idx,
                   outcome, result>>

\* lines 114-117: the body is read and the URIResult returned; the pool's
\* worker stores it in the task's AsyncResult and is free again.
WorkerReturn(i) ==
    /\ i \in 1..Len(async_results)
    /\ async_results[i].state = "read"
    /\ \E nread \in Lengths :
          async_results' = [async_results EXCEPT ![i] =
             [NoTask EXCEPT !.state = "done", !.headers = async_results[i].headers,
                            !.res = URIResult(async_results[i].code,
                                              async_results[i].elapsed, nread)]]
    /\ UNCHANGED <<pc, workers, cfgVars, processes, closed, calls, clock, start,
                   end, sumVars, outcome, result>>

\* a join that does not wait for the tasks
JoinNoWait ==
    /\ pc = "join"
    /\ closed
    /\ \E t \in Readings :
          /\ clock' = t
          /\ end' = t
          /\ total_time' = Round3(t - start)
    /\ total_bytes' = 0
    /\ total_content_bytes' = 0
    /\ total_errors' = 0
    /\ idx' = 1
    /\ pc' = "reduce"
    /\ UNCHANGED <<workers, cfgVars, poolVars, start, outcome, result>>

\* lines 151-158: pool.join() returns once every task has been run and the
\* workers have exited; end = time.time(); the totals are initialised.
Join ==
    /\ pc = "join"
    /\ closed
    /\ \A i \in 1..Len(async_results) : Finished(i)
    /\ \E t \in Readings :
          /\ clock' = t
          /\ end' = t
          /\ total_time' = Round3(t - start)
    /\ total_bytes' = 0
    /\ total_content_bytes' = 0
    /\ total_errors' = 0
    /\ idx' = 1
    /\ pc' = "reduce"
    /\ UNCHANGED <<workers, cfgVars, poolVars, start, outcome, result>>

\* an iteration that does what DOCUMENTATION says of variable_length: with
\* it off, a body whose length differs from the first one's is an error
FoldBaselineLength ==
    /\ pc = "reduce"
    /\ idx <= Len(async_results)
    /\ async_results[idx].state = "done"
    /\ LET res == async_results[idx].res
           mismatch == /\ ~variable_length
                       /\ async_results[1].state = "done"
                       /\ res.content_length # async_results[1].res.content_length
       IN /\ total_bytes' = total_bytes + res.total_length
          /\ total_content_bytes' = total_content_bytes + res.content_length
          /\ total_errors' = IF IsError(res.status) \/ mismatch
                             THEN total_errors + 1 ELSE total_errors
    /\ idx' = idx + 1
    /\ UNCHANGED <<pc, workers, cfgVars, poolVars, clock, start, end, total_time,
                   outcome, result>>

\* an iteration that assigns the byte totals instead of adding to them
FoldKeepsLast ==
    /\ pc = "reduce"
    /\ idx <= Len(async_results)
    /\ async_results[idx].state = "done"
    /\ LET res == async_results[idx].res IN
          /\ total_bytes' = res.total_length
          /\ total_content_bytes' = res.content_length
          /\ total_errors' = IF IsError(res.status) THEN total_errors + 1
                                                    ELSE total_errors
    /\ idx' = idx + 1
    /\ UNCHANGED <<pc, workers, cfgVars, poolVars, clock, start, end, total_time,
                   outcome, result>>

\* an iteration whose increment of total_errors is also run outside the if
FoldCountTwice ==
    /\ pc = "reduce"
    /\ idx <= Len(async_results)
    /\ async_results[idx].state = "done"
    /\ LET res == async_results[idx].res IN
          /\ total_bytes' = total_bytes + res.total_length
          /\ total_content_bytes' = total_content_bytes + res.content_length
          /\ total_errors' = IF IsError(res.status) THEN total_errors + 2
                                                    ELSE total_errors + 1
    /\ idx' = idx + 1
    /\ UNCHANGED <<pc, workers, cfgVars, poolVars, clock, start, end, total_time,
                   outcome, result>>

\* lines 160-165, one iteration whose async_result.get() returns a URIResult
Fold ==
    /\ pc = "reduce"
    /\ idx <= Len(async_results)
    /\ async_results[idx].state = "done"
    /\ LET res == async_results[idx].res IN
          /\ total_bytes' = total_bytes + res.total_length
          /\ total_content_bytes' = total_content_bytes + res.content_length
          /\ total_errors' = IF IsError(res.status) THEN total_errors + 1
                                                    ELSE total_errors
    /\ idx' = idx + 1
    /\ UNCHANGED <<pc, workers, cfgVars, poolVars, clock, start, end, total_time,
                   outcome, result>>

\* line 161: async_result.get() re-raises the exception run_test raised;
\* main has no handler, so the run ends with it and no report.
FoldRaise ==
    /\ pc = "reduce"
    /\ idx <= Len(async_results)
    /\ async_results[idx].state = "raised"
    /\ pc' = "done"
    /\ outcome' = "exception"
    /\ UNCHANGED <<workers, cfgVars, poolVars, clock, start, end, sumVars, result>>

\* lines 168-178: the loop is over; the result dict is built and returned
ExitJson ==
    /\ pc = "reduce"
    /\ idx > Len(async_results)
    /\ total_time # 0
    /\ result' = [total_time |-> total_time,
                  total_bytes_transferred |-> total_bytes,
                  total_content_bytes_transferred |-> total_content_bytes,
                  requests_per_second |-> RequestsPerSecond(request_count, total_time),
                  kbytes_per_second |-> KBytesPerSecond(total_bytes, total_time),
                  failed_requests |-> total_errors]
    /\ pc' = "done"
    /\ outcome' = "report"
    /\ UNCHANGED <<workers, cfgVars, poolVars, clock, start, end, sumVars>>

\* lines 172-173 with total_time == 0.0: request_count / total_time raises
\* ZeroDivisionError while the dict is built; no report is returned.
ExitZeroDivision ==
    /\ pc = "reduce"
    /\ idx > Len(async_results)
    /\ total_time = 0
    /\ pc' = "done"
    /\ outcome' = "exception"
    /\ UNCHANGED <<workers, cfgVars, poolVars, clock, start, end, sumVars, result>>

Next ==
    \/ FailWorkers
    \/ FailRequestCount
    \/ Validated
    \/ CreatePool
    \/ Submit
    \/ ClosePool
    \/ WorkerStart
    \/ \E i \in 1..MaxRequests : WorkerResponse(i)
    \/ \E i \in 1..MaxRequests : WorkerRaise(i)
    \/ \E i \in 1..MaxRequests : WorkerReturn(i)
    \/ Join
    \/ Fold
    \/ FoldRaise
    \/ ExitJson
    \/ ExitZeroDivision

Spec == Init /\ [][Next]_vars

\* main runs on, and the pool's workers run the tasks they are given.
FairSpec == Spec /\ WF_vars(Next)

\* The state after lines 120-136 with keepalive and variable_length as the
\* caller sets them; workers is 0 or the largest value.
InitOptions ==
    /\ pc = "validate"
    /\ params \in [workers : {0, MaxWorkers}, request_count : 0..MaxRequests,
                    keepalive : BOOLEAN, variable_length : BOOLEAN]
    /\ workers = params.workers
    /\ request_count = params.request_count
    /\ keepalive = params.keepalive
    /\ variable_length = params.variable_length
    /\ processes = 0
    /\ closed = FALSE
    /\ async_results = <<>>
    /\ clock = 0
    /\ start = 0
    /\ end = 0
    /\ total_time = 0
    /\ total_bytes = 0
    /\ total_content_bytes = 0
    /\ total_errors = 0
    /\ idx = 0
    /\ calls = 0
    /\ outcome = "none"
    /\ result = NoReport

SpecOptions == InitOptions /\ [][Next]_vars

\* ================================================================ claims

N == Len(async_results)
\* the parameters pass the tests of lines 139 and 141
ValidConfig == params.workers >= 1 /\ params.request_count >= 1
Started == {i \in 1..N : async_results[i].state # "queued"}
Returned == {i \in 1..N : async_results[i].state = "done"}
Raised == {i \in 1..N : async_results[i].state = "raised"}
StatusOf(i) == async_results[i].res.status
\* results whose status is outside [200, 400)
OutOfRange == {i \in Returned : StatusOf(i) \notin 200..399}

RECURSIVE SumContentLength(_)
SumContentLength(n) ==
    IF n = 0 THEN 0
    ELSE SumContentLength(n - 1) + async_results[n].res.content_length

\* C1: for a valid config, run_test is started at most request_count times,
\* once per submitted task (a task that raised or returned an error status is
\* not started again), and exactly request_count times once the pool is joined.
C1_ExactlyRequestCountInvocations ==
    ValidConfig =>
        /\ calls <= params.request_count
        /\ calls = Cardinality(Started)
        /\ pc \in {"reduce", "done"} => calls = params.request_count

\* a finished run of two requests, one that raised and one that returned an
\* error status, with two invocations in all
C1_Witness ==
    /\ pc = "done"
    /\ params.request_count = 2
    /\ calls = 2
    /\ Raised # {}
    /\ OutOfRange # {}

\* C2: the run_test invocations started and not finished never outnumber the
\* processes of the pool.
C2_InFlightAtMostPoolSize == Cardinality(Running) <= processes

\* a pool of one process with one invocation in flight and a task waiting
C2_Witness ==
    /\ processes = 1
    /\ Cardinality(Running) = 1
    /\ Queued # {}

\* C3: an invocation whose open_url raised does not abort the batch: the run
\* ends with a report that counts it among failed_requests.  (Stated for the
\* runs whose total_time is not zero, where building the report cannot fail.)
C3_TransportErrorAbsorbed ==
    (pc = "done" /\ Raised # {} /\ total_time # 0) =>
        /\ outcome = "report"
        /\ result.failed_requests = Cardinality(Raised) + Cardinality(OutOfRange)

\* C4: with workers < 1 or request_count < 1 no pool is created, no
\* invocation is started and the run ends with the configuration error.
C4_InvalidConfigRejected ==
    ~ValidConfig =>
        /\ processes = 0
        /\ calls = 0
        /\ pc = "done" => outcome = "config_error"

\* C5: once validated, the worker count, and then the pool's size, is the
\* smaller of the configured workers and request_count.
C5_PoolSizeIsMin ==
    LET least == IF params.workers <= params.request_count
                 THEN params.workers ELSE params.request_count
    IN  /\ (ValidConfig /\ pc # "validate") => workers = least
        /\ (ValidConfig /\ pc \notin {"validate", "pool"}) => processes = least
        /\ processes \in {0, least}

\* more workers configured than requests: the pool has request_count processes
C5_Witness ==
    /\ params.workers > params.request_count
    /\ params.request_count >= 1
    /\ processes = params.request_count

\* C6: the aggregation runs, and the report is returned, only when all
\* request_count invocations have been submitted and have finished.
C6_ReportAfterAllCompleted ==
    (pc = "reduce" \/ idx > 0 \/ outcome = "report") =>
        /\ N = params.request_count
        /\ \A i \in 1..N : Finished(i)

\* a report of a run of two requests
C6_Witness ==
    /\ outcome = "report"
    /\ params.request_count = 2
    /\ Cardinality(Returned) = 2

\* C7: a run all of whose invocations returned a status outside [200, 400)
\* ends with a report whose failed_requests is request_count and whose
\* total_bytes_transferred is the sum of the bodies' lengths.
C7_AllErrorStatusesStillReport ==
    (pc = "done" /\ ValidConfig /\ OutOfRange = 1..N) =>
        /\ outcome = "report"
        /\ result.failed_requests = params.request_count
        /\ result.total_bytes_transferred = SumContentLength(N)

\* C8: failed_requests of the report is the number of results whose status
\* is below 200 or at least 400.
C8_FailedRequestsCountsOutOfRange ==
    outcome = "report" => result.failed_requests = Cardinality(OutOfRange)

\* a report over a 399 and a 400: one failed request
C8_Witness ==
    /\ outcome = "report"
    /\ \E i, j \in Returned : StatusOf(i) = 399 /\ StatusOf(j) = 400
    /\ result.failed_requests = 1

\* C9: the running error count is at most the number of results folded so
\* far, and failed_requests of the report is at most request_count.
C9_ErrorsAtMostFolded ==
    /\ total_errors <= (IF idx = 0 THEN 0 ELSE idx - 1)
    /\ outcome = "report" => result.failed_requests <= params.request_count

\* a report in which every one of two requests failed
C9_Witness ==
    /\ outcome = "report"
    /\ params.request_count = 2
    /\ result.failed_requests = 2

\* C10: total_bytes_transferred of the report is the sum of content_length
\* over the results and equals total_content_bytes_transferred; every
\* returned result has total_length = content_length.
C10_TotalBytesIsSumOfContentLength ==
    /\ \A i \in Returned :
          async_results[i].res.total_length = async_results[i].res.content_length
    /\ outcome = "report" =>
          /\ result.total_bytes_transferred = SumContentLength(N)
          /\ result.total_bytes_transferred = result.total_content_bytes_transferred

\* a report over two bodies of 100 bytes: 200 bytes
C10_Witness ==
    /\ outcome = "report"
    /\ \A i \in 1..2 : i \in Returned /\ async_results[i].res.content_length = 100
    /\ result.total_bytes_transferred = 200

\* ---- the results as a multiset: what is left of them when their order,
\* and the order in which they were produced, is forgotten
ResultValues == {async_results[i].res : i \in Returned}
Copies(r) == Cardinality({i \in Returned : async_results[i].res = r})

RECURSIVE BagTotal(_, _)
BagTotal(S, field) ==
    IF S = {} THEN 0
    ELSE LET r == CHOOSE x \in S : TRUE
         IN  Copies(r) * r[field] + BagTotal(S \ {r}, field)

RECURSIVE BagCount(_)
BagCount(S) ==
    IF S = {} THEN 0
    ELSE LET r == CHOOSE x \in S : TRUE
         IN  Copies(r) + BagCount(S \ {r})

\* C11: the three counts of the report are determined by the multiset of the
\* results alone, whatever the order in which the invocations were scheduled,
\* completed and folded.
C11_CountsDependOnMultisetOnly ==
    outcome = "report" =>
        /\ result.total_bytes_transferred = BagTotal(ResultValues, "total_length")
        /\ result.total_content_bytes_transferred =
              BagTotal(ResultValues, "content_length")
        /\ result.failed_requests =
              BagCount({r \in ResultValues : r.status < 200 \/ r.status >= 400})

\* a report over two different results, the failing one first
C11_Witness ==
    /\ outcome = "report"
    /\ N = 2
    /\ async_results[1].res.status = 400 /\ async_results[1].res.content_length = 100
    /\ async_results[2].res.status = 200 /\ async_results[2].res.content_length = 0
    /\ result.total_bytes_transferred = 100
    /\ result.failed_requests = 1

\* C12: with request_count = 1 (and workers >= 1) there is one invocation,
\* never two in flight, a pool of one process, and the report's counts are
\* those of the single result.
C12_SingleRequestIsOneInvocation ==
    (params.request_count = 1 /\ params.workers >= 1) =>
        /\ calls <= 1
        /\ N <= 1
        /\ Cardinality(Running) <= 1
        /\ processes <= 1
        /\ pc \in {"reduce", "done"} => calls = 1
        /\ outcome = "report" =>
              /\ result.total_bytes_transferred = async_results[1].res.total_length
              /\ result.total_content_bytes_transferred =
                    async_results[1].res.content_length
              /\ result.failed_requests =
                    (IF StatusOf(1) \in 200..399 THEN 0 ELSE 1)

\* one request with two workers configured: a report of one failed request
C12_Witness ==
    /\ params.request_count = 1
    /\ params.workers = 2
    /\ outcome = "report"
    /\ StatusOf(1) = 199
    /\ result.failed_requests = 1
    /\ result.total_bytes_transferred = 100

\* C13: within an invocation the end reading is taken after the body has
\* been read: no invocation has its end reading (and so its elapsed time)
\* while its body is still unread.
C13_EndReadingAfterBodyRead ==
    \A i \in 1..N : async_results[i].state # "read"

\* C14: a run whose invocations all returned and whose total_time rounded to
\* zero still ends with a report.
C14_ZeroTotalTimeStillReports ==
    (/\ pc = "done"
     /\ N >= 1
     /\ N = params.request_count
     /\ Returned = 1..N
     /\ total_time = 0) => outcome = "report"

Abs(x) == IF x < 0 THEN 0 - x ELSE x
\* h hundredths is num / den to within half a hundredth
WithinHalfHundredth(h, num, den) ==
    den > 0 /\ 2 * Abs(100 * num - h * den) <= den

\* C15: the reported rates are those recomputed from the raw readings of
\* the run: request_count / (end - start), and total_bytes_transferred /
\* (end - start) / 1024, to within the rounding to 2 decimals.  (A clock
\* unit is 1/3000 s.)
C15_RatesMatchRawTimestamps ==
    outcome = "report" =>
        /\ WithinHalfHundredth(result.requests_per_second,
                               params.request_count * 3000, end - start)
        /\ WithinHalfHundredth(result.kbytes_per_second,
                               result.total_bytes_transferred * 3000,
                               (end - start) * 1024)

\* C16: every request sent carries the header Connection: keep-alive if
\* keepalive is set, and no header at all if it is not.
C16_KeepAliveHeaderIffKeepalive ==
    \A i \in Started :
        /\ params.keepalive =>
              async_results[i].headers = {<<"Connection", "keep-alive">>}
        /\ ~params.keepalive => async_results[i].headers = {}

\* keepalive set, two requests sent, both with the header
C16_Witness ==
    /\ params.keepalive
    /\ Cardinality(Started) = 2
    /\ \A i \in Started : <<"Connection", "keep-alive">> \in async_results[i].headers

C18_RunSpansEveryInvocation ==
    /\ calls > 0 => pc \notin {"validate", "pool"}
    /\ \A i \in 1..N :
          async_results[i].state = "request" => start <= async_results[i].start
    /\ (pc = "reduce" \/ outcome = "report") =>
          /\ \A i \in 1..N : Finished(i)
          /\ start <= end
          /\ clock = end

\* a report of two requests, one of which took time, in a run that took time
C18_Witness ==
    /\ outcome = "report"
    /\ N = 2
    /\ \E i \in Returned : async_results[i].res.time > 0
    /\ end > start

\* C19: the three counters change only in main's pass over the results, when
\* every submitted task has finished: no step changes one while an
\* invocation is queued or running.
C19_CountersChangeOnlyAfterJoin ==
    [][<<total_bytes, total_content_bytes, total_errors>>' #
          <<total_bytes, total_content_bytes, total_errors>>
       => /\ pc = "reduce"
          /\ N = params.request_count
          /\ \A i \in 1..N : Finished(i)
          /\ async_results' = async_results]_vars

\* the pass half way: one result of two folded
C19_Witness ==
    /\ pc = "reduce"
    /\ N = 2
    /\ idx = 2
    /\ total_bytes = 100

\* C20: a run with a valid config that has ended has returned its report.
C20_EndsWithTheReport ==
    (pc = "done" /\ ValidConfig) => outcome = "report"

\* every run ends, main and the workers being scheduled fairly
Terminates == <>(pc = "done")

\* the report is returned by the step that ends the run, and nothing
\* follows the end of the run
ReportIsTheLastStep ==
    [][/\ pc # "done"
       /\ outcome = "none"
       /\ outcome' = "report" => (pc' = "done" /\ idx > N)]_vars

====
